---- MODULE Spec2Model ----
(***************************************************************************)
(* State-machine model of src/App.js.  The file holds three variants of    *)
(* the App component:                                                      *)
(*   variant 1 (lines 1-227)   keyword search with debounced autocomplete, *)
(*                             getsurveys + metadata (fetchProjects);      *)
(*   variant 2 (lines 229-689) species search: fetchSuggestions,           *)
(*                             fetchSurveys, fetchProjectsMetadata;        *)
(*   variant 3 (lines 691-929) keyword search with the circle filter       *)
(*                             (fetchProjects, three sequential calls).    *)
(* Each await of the source is a suspension point: the code before the     *)
(* first await runs in the action that starts the chain, and each response *)
(* action runs the code up to the next await (or to the end, the catch and *)
(* the finally included).  Responses of the remote service are drawn from  *)
(* small sets.  location and radius only parameterise the request URLs and *)
(* one message text, and are left out.                                     *)
(***************************************************************************)
EXTENDS Integers, Sequences, FiniteSets, TLC

VARIABLES
  variant,              \* which App of the file is running (1, 2, 3)
  keyword,              \* useState('')
  suggestions,          \* useState([])
  loadingSuggestions,   \* useState(false)
  projectMetadata,      \* useState([])
  loadingProjects,      \* useState(false)        (variants 1, 2)
  loading,              \* useState(false)        (variant 3)
  errorMsg,             \* useState(null)
  markers,              \* useState([])
  selectedSpecies,      \* useState(null)         (variant 2)
  isSearching,          \* useState(false)        (variant 2)
  isTypingKeyword,      \* useState(false)        (variant 2)
  keywordProjectCount,  \* useState(0)            (variant 3)
  areaProjectCount,     \* useState(0)            (variant 3)
  timers,               \* pending setTimeout callbacks of debounce
  timeoutId,            \* timeoutId of the debounce closure of the current render
  sugReqs,              \* species-search requests in flight
  runs,                 \* the suspended pipeline chains, one record per slot
  nInputs,              \* input-change events so far (numbers timers and requests)
  suggestionsSeq,       \* the request whose response setSuggestions stored last
  lastInput,            \* the text of the latest input change
  burstCalls            \* the input changes whose species-search call was made since
                        \* the current burst of input changes began

vars == <<variant, keyword, suggestions, loadingSuggestions, projectMetadata,
          loadingProjects, loading, errorMsg, markers, selectedSpecies,
          isSearching, isTypingKeyword, keywordProjectCount, areaProjectCount,
          timers, timeoutId, sugReqs, runs, nInputs, suggestionsSeq,
          lastInput, burstCalls>>

(***************************************************************************)
(* Bounds of the model.                                                    *)
(***************************************************************************)
MaxInputs == 3
MaxRuns == 2
MaxSurveys == 3
MaxMeta == 2
MaxSort == 3
TickMs == 100

(***************************************************************************)
(* Program constants.                                                      *)
(***************************************************************************)
DebounceDelay == 300

(***************************************************************************)
(* Values.                                                                 *)
(***************************************************************************)
null == ""

NoSpecies == [ScientificName |-> "", SpeciesName |-> "", TaxonID |-> 0]

undefined == [undefined |-> TRUE]

Texts == {"", " ", "k", "ko"}

ProjectIds == {101, 102}

Dates == {1, 2}

RECURSIVE SeqsUpTo(_, _)
SeqsUpTo(S, n) ==
  IF n = 0 THEN {<<>>}
  ELSE LET shorter == SeqsUpTo(S, n - 1)
       IN  shorter \cup {Append(s, x) : s \in {t \in shorter : Len(t) = n - 1}, x \in S}

Range(s) == {s[i] : i \in 1..Len(s)}

Last(s) == s[Len(s)]

(***************************************************************************)
(* Responses of the directory service: a transport failure, or a body in   *)
(* which the collection is absent, a single object or an array.            *)
(***************************************************************************)
Fail == [ok |-> FALSE, kind |-> "absent", body |-> <<>>]

Absent == [ok |-> TRUE, kind |-> "absent", body |-> <<>>]

Arr(s) == [ok |-> TRUE, kind |-> "array", body |-> s]

Obj(x) == [ok |-> TRUE, kind |-> "object", body |-> <<x>>]

ProjectRec(id) == [ProjectID |-> id]

ProjectResponses ==
  {Fail, Absent, Arr(<<>>), Arr(<<ProjectRec(101)>>), Arr(<<ProjectRec(102)>>),
   Arr(<<ProjectRec(101), ProjectRec(102)>>)}

MetaRec(id, d) == [Project |-> [ProjectID |-> id], LastLoadDate |-> d]

MetaRecs == {MetaRec(id, d) : id \in ProjectIds, d \in Dates}

MetadataResponsesUpTo(n) ==
  {Fail, Absent} \cup {Obj(m) : m \in MetaRecs} \cup {Arr(s) : s \in SeqsUpTo(MetaRecs, n)}

MetadataResponses ==
  {Fail, Absent, Obj(MetaRec(101, 1)), Arr(<<>>),
   Arr(<<MetaRec(101, 1), MetaRec(102, 2)>>), Arr(<<MetaRec(102, 1), MetaRec(101, 1)>>)}

Koala == [ScientificName |-> "Phascolarctos cinereus", SpeciesName |-> "koala", TaxonID |-> 860]

Kangaroo == [ScientificName |-> "Macropus giganteus", SpeciesName |-> "kangaroo", TaxonID |-> 870]

SpeciesResponses == {Fail, Absent, Arr(<<Koala>>), Arr(<<Koala, Kangaroo>>)}

(***************************************************************************)
(* `x || []` on a response body (lines 50, 67, 77, 293, 318, 731, 744).    *)
(***************************************************************************)
OrEmpty(resp) == IF resp.kind = "absent" THEN <<>> ELSE resp.body

(***************************************************************************)
(* User-facing messages.                                                   *)
(***************************************************************************)
NoResultsMsg(kw) == "No results found for keyword: " \o kw

NoAreaMsg(kw) ==
  "No results found for keyword: " \o kw \o " within <radius> meters. Try increasing the radius."

NoMetadataMsg == "No metadata found for projects."

GenericErrorMsg == "An error occurred while fetching data. Please try again."

NoSurveysMsg == "No surveys found for the selected radius. Try increasing the radius."

SurveyErrorMsg == "An error occurred while fetching survey data. Please try again."

(***************************************************************************)
(* A pipeline chain: where it is suspended (pc), its argument, its locals  *)
(* and the remote calls it has issued.                                     *)
(***************************************************************************)
IdleRun ==
  [pc |-> "idle", keyword |-> "", taxonId |-> 0, projectIDs |-> <<>>,
   api2Projects |-> <<>>, surveys |-> <<>>, surveyCounts |-> <<>>,
   metadata |-> Absent, calls |-> <<>>]

Call(op, projtitle, taxonid, projids) ==
  [op |-> op, projtitle |-> projtitle, taxonid |-> taxonid, projids |-> projids]

Suspended == {"api1", "api2", "api3"}

InFlight(r) == runs[r].pc \in Suspended

FreeSlots == {r \in 1..MaxRuns : ~InFlight(r)}

NewSlot == CHOOSE r \in FreeSlots : \A q \in FreeSlots : r <= q

Ids(projects) == [i \in 1..Len(projects) |-> projects[i].ProjectID]

Includes(ids, x) == \E i \in 1..Len(ids) : ids[i] = x

(***************************************************************************)
(* Array.prototype.sort with the comparator of line 776: a stable sort by  *)
(* LastLoadDate, latest first.                                             *)
(***************************************************************************)
InsertByDate_mutant(sorted, x) ==
  LET before == {i \in 1..Len(sorted) : sorted[i].LastLoadDate > x.LastLoadDate}
      k == IF before = {} THEN 0 ELSE CHOOSE i \in before : \A j \in before : j <= i
  IN  SubSeq(sorted, 1, k) \o <<x>> \o SubSeq(sorted, k + 1, Len(sorted))

InsertByDate(sorted, x) ==
  LET before == {i \in 1..Len(sorted) : sorted[i].LastLoadDate >= x.LastLoadDate}
      k == IF before = {} THEN 0 ELSE CHOOSE i \in before : \A j \in before : j <= i
  IN  SubSeq(sorted, 1, k) \o <<x>> \o SubSeq(sorted, k + 1, Len(sorted))

RECURSIVE SortByLastLoadDate(_)
SortByLastLoadDate(s) ==
  IF s = <<>> THEN <<>>
  ELSE InsertByDate(SortByLastLoadDate(SubSeq(s, 1, Len(s) - 1)), Last(s))

(***************************************************************************)
(* Survey points (GeoJSON-like features): geometry.coordinates = [lon,lat]. *)
(***************************************************************************)
Coords == {<<1, 1>>, <<1, 2>>, <<2, 1>>}

NoProjectID == 0

Survey(i, c, pid) ==
  [id |-> i,
   geometry |-> [coordinates |-> <<c[2], c[1]>>],
   properties |-> [ProjectID |-> pid, ProjectName |-> "Project " \o ToString(pid),
                   LocalityDetails |-> "Locality " \o ToString(i), SiteCode |-> i]]

MkSurveys(points) == [i \in 1..Len(points) |-> Survey(i, points[i][1], points[i][2])]

SurveyListsUpTo(n) ==
  {MkSurveys(points) : points \in SeqsUpTo(Coords \X (ProjectIds \cup {NoProjectID}), n)}

SurveyResponses ==
  {Fail, Absent, Arr(<<>>),
   Arr(MkSurveys(<< <<(<<1, 1>>), 101>> >>)),
   Arr(MkSurveys(<< <<(<<1, 1>>), 101>>, <<(<<1, 1>>), 101>> >>)),
   Arr(MkSurveys(<< <<(<<1, 2>>), 102>>, <<(<<2, 1>>), 101>> >>))}

(***************************************************************************)
(* Variant 1: keyword search with debounced autocomplete (lines 7-211).    *)
(***************************************************************************)
V1_state == <<keyword, suggestions, loadingSuggestions, projectMetadata,
              loadingProjects, errorMsg, markers>>

V1_others == <<variant, loading, selectedSpecies, isSearching, isTypingKeyword,
               keywordProjectCount, areaProjectCount>>

\* The component function runs again on every state change, and each run
\* builds a new debounce closure (line 43) whose timeoutId is undefined.
Rerendered(forced) == IF forced \/ V1_state' # V1_state THEN 0 ELSE timeoutId

\* debounce (lines 20-26): the returned function, called with `input`
V1_debounced(id, input) ==
  timers' = {t \in timers : t.id # timeoutId}
              \cup {[id |-> id, input |-> input, remaining |-> DebounceDelay]}

\* handleInputChange (lines 103-106), called by onChangeText (line 147) when
\* the text of the input changes
V1_handleInputChange(text) ==
  /\ variant = 1
  /\ text # keyword
  /\ nInputs < MaxInputs
  /\ nInputs' = nInputs + 1
  /\ keyword' = text
  /\ V1_debounced(nInputs + 1, text)
  /\ timeoutId' = Rerendered(TRUE)
  /\ lastInput' = text
  /\ burstCalls' = IF timers # {} THEN burstCalls ELSE <<>>
  /\ UNCHANGED <<suggestions, loadingSuggestions, projectMetadata, loadingProjects,
                 errorMsg, markers, sugReqs, runs, suggestionsSeq>>
  /\ UNCHANGED V1_others

\* TickMs of time pass; a timer that is due runs before time moves on
V1_Tick ==
  /\ variant = 1
  /\ timers # {}
  /\ \A t \in timers : t.remaining > 0
  /\ timers' = {[t EXCEPT !.remaining = @ - TickMs] : t \in timers}
  /\ UNCHANGED <<keyword, suggestions, loadingSuggestions, projectMetadata,
                 loadingProjects, errorMsg, markers, timeoutId, sugReqs, runs,
                 nInputs, suggestionsSeq, lastInput, burstCalls>>
  /\ UNCHANGED V1_others

\* The timer of line 24 fires: fetchSuggestions' body up to its await (44-49)
V1_fetchSuggestions(t) ==
  /\ variant = 1
  /\ t \in timers
  /\ t.remaining <= 0
  /\ \A u \in timers : t.id <= u.id
  /\ timers' = timers \ {t}
  /\ IF t.input = ""
     THEN UNCHANGED <<loadingSuggestions, sugReqs, burstCalls, timeoutId>>
     ELSE /\ loadingSuggestions' = TRUE
          /\ sugReqs' = sugReqs \cup {[seq |-> t.id, input |-> t.input]}
          /\ burstCalls' = Append(burstCalls, t.id)
          /\ timeoutId' = IF ~loadingSuggestions THEN 0 ELSE timeoutId
  /\ UNCHANGED <<keyword, suggestions, projectMetadata, loadingProjects, errorMsg,
                 markers, runs, nInputs, suggestionsSeq, lastInput>>
  /\ UNCHANGED V1_others

\* fetchSuggestions from the response to its end (lines 47-55)
V1_suggestionsResponse(q, resp) ==
  /\ variant = 1
  /\ q \in sugReqs
  /\ sugReqs' = sugReqs \ {q}
  /\ IF resp.ok
     THEN /\ suggestions' = OrEmpty(resp)
          /\ suggestionsSeq' = q.seq
     ELSE UNCHANGED <<suggestions, suggestionsSeq>>
  /\ loadingSuggestions' = FALSE
  /\ timeoutId' = IF resp.ok \/ loadingSuggestions THEN 0 ELSE timeoutId
  /\ UNCHANGED <<keyword, projectMetadata, loadingProjects, errorMsg, markers,
                 timers, runs, nInputs, lastInput, burstCalls>>
  /\ UNCHANGED V1_others

\* fetchProjects up to its first await (lines 58-66)
V1_fetchProjects(selectedKeyword) ==
  /\ loadingProjects' = TRUE
  /\ errorMsg' = null
  /\ projectMetadata' = <<>>
  /\ markers' = <<>>
  /\ runs' = [runs EXCEPT ![NewSlot] =
                [IdleRun EXCEPT !.pc = "api1", !.keyword = selectedKeyword,
                                !.calls = <<Call("projectsearch", selectedKeyword, 0, <<>>)>>]]
  /\ timeoutId' = 0

\* handleSuggestionSelect (lines 108-112), from a row of the list (150-163)
V1_handleSuggestionSelect(suggestion) ==
  /\ variant = 1
  /\ suggestion \in Range(suggestions)
  /\ FreeSlots # {}
  /\ keyword' = suggestion.SpeciesName
  /\ suggestions' = <<>>
  /\ V1_fetchProjects(suggestion.SpeciesName)
  /\ UNCHANGED <<loadingSuggestions, timers, sugReqs, nInputs, suggestionsSeq,
                 lastInput, burstCalls>>
  /\ UNCHANGED V1_others

\* The Search button (line 173)
V1_pressSearch ==
  /\ variant = 1
  /\ ~loadingProjects
  /\ keyword # ""
  /\ FreeSlots # {}
  /\ V1_fetchProjects(keyword)
  /\ UNCHANGED <<keyword, suggestions, loadingSuggestions, timers, sugReqs, nInputs,
                 suggestionsSeq, lastInput, burstCalls>>
  /\ UNCHANGED V1_others

\* lines 78-86
V1_newMarkers(surveys) ==
  [i \in 1..Len(surveys) |->
     [id |-> surveys[i].id,
      coordinate |-> [latitude |-> surveys[i].geometry.coordinates[2],
                      longitude |-> surveys[i].geometry.coordinates[1]],
      title |-> surveys[i].properties.ProjectName,
      description |-> surveys[i].properties.LocalityDetails]]

\* line 90: the ids sent in the metadata request
V1_metadataIds(projectIDs, surveys) == projectIDs

\* line 94
V1_normalize(resp) == IF resp.kind = "absent" THEN <<undefined>> ELSE resp.body

\* lines 95-100 without the finally
V1_catch_mutant(r) ==
  /\ errorMsg' = GenericErrorMsg
  /\ loadingProjects' = loadingProjects
  /\ runs' = [runs EXCEPT ![r].pc = "error"]

\* The catch and finally of fetchProjects (lines 95-100)
V1_catch(r) ==
  /\ errorMsg' = GenericErrorMsg
  /\ loadingProjects' = FALSE
  /\ runs' = [runs EXCEPT ![r].pc = "error"]

\* line 69
V1_noResults(projectIDs) == Len(projectIDs) = 0

\* fetchProjects from the response of API 1 to the next await (66-75, 95-100)
V1_api1Response(r, resp) ==
  /\ variant = 1
  /\ runs[r].pc = "api1"
  /\ LET projectIDs == Ids(OrEmpty(resp))
     IN  IF ~resp.ok
         THEN V1_catch(r)
         ELSE IF V1_noResults(projectIDs)
         THEN /\ errorMsg' = NoResultsMsg(runs[r].keyword)
              /\ loadingProjects' = FALSE
              /\ runs' = [runs EXCEPT ![r].pc = "noKeyword"]
         ELSE /\ runs' = [runs EXCEPT ![r].pc = "api2",
                                      ![r].projectIDs = projectIDs,
                                      ![r].calls = Append(@, Call("getsurveys", "", 0, projectIDs))]
              /\ UNCHANGED <<errorMsg, loadingProjects>>
  /\ UNCHANGED <<keyword, suggestions, loadingSuggestions, projectMetadata, markers>>
  /\ timeoutId' = Rerendered(FALSE)
  /\ UNCHANGED <<timers, sugReqs, nInputs, suggestionsSeq, lastInput, burstCalls>>
  /\ UNCHANGED V1_others

\* fetchProjects from the response of API 2 to the next await (75-91, 95-100)
V1_api2Response(r, resp) ==
  /\ variant = 1
  /\ runs[r].pc = "api2"
  /\ LET surveys == OrEmpty(resp)
     IN  IF ~resp.ok
         THEN /\ V1_catch(r)
              /\ UNCHANGED markers
         ELSE /\ markers' = V1_newMarkers(surveys)
              /\ runs' = [runs EXCEPT ![r].pc = "api3",
                                      ![r].surveys = surveys,
                                      ![r].calls = Append(@,
                                         Call("getprojectsmetadatabyid", "", 0,
                                              V1_metadataIds(runs[r].projectIDs, surveys)))]
              /\ UNCHANGED <<errorMsg, loadingProjects>>
  /\ UNCHANGED <<keyword, suggestions, loadingSuggestions, projectMetadata>>
  /\ timeoutId' = Rerendered(resp.ok)
  /\ UNCHANGED <<timers, sugReqs, nInputs, suggestionsSeq, lastInput, burstCalls>>
  /\ UNCHANGED V1_others

\* fetchProjects from the response of API 3 to its end (91-100)
V1_api3Response(r, resp) ==
  /\ variant = 1
  /\ runs[r].pc = "api3"
  /\ IF ~resp.ok
     THEN /\ V1_catch(r)
          /\ UNCHANGED projectMetadata
     ELSE /\ projectMetadata' = V1_normalize(resp)
          /\ loadingProjects' = FALSE
          /\ runs' = [runs EXCEPT ![r].pc = "results", ![r].metadata = resp]
          /\ UNCHANGED errorMsg
  /\ UNCHANGED <<keyword, suggestions, loadingSuggestions, markers>>
  /\ timeoutId' = Rerendered(resp.ok)
  /\ UNCHANGED <<timers, sugReqs, nInputs, suggestionsSeq, lastInput, burstCalls>>
  /\ UNCHANGED V1_others

(***************************************************************************)
(* Variant 2: species search (lines 234-640).                              *)
(***************************************************************************)
V2_others == <<variant, loading, keywordProjectCount, areaProjectCount, timers,
               timeoutId, burstCalls>>

\* text.trim() === '' (line 401)
Trim(text) == IF text = " " THEN "" ELSE text

\* a.ScientificName.localeCompare(b.ScientificName) < 0 (line 294)
NameOrder == <<"Macropus giganteus", "Phascolarctos cinereus">>

NameRank(name) == CHOOSE i \in 1..Len(NameOrder) : NameOrder[i] = name

InsertByName(sorted, x) ==
  LET before == {i \in 1..Len(sorted) :
                   NameRank(sorted[i].ScientificName) <= NameRank(x.ScientificName)}
      k == IF before = {} THEN 0 ELSE CHOOSE i \in before : \A j \in before : j <= i
  IN  SubSeq(sorted, 1, k) \o <<x>> \o SubSeq(sorted, k + 1, Len(sorted))

RECURSIVE SortByScientificName(_)
SortByScientificName(s) ==
  IF s = <<>> THEN <<>>
  ELSE InsertByName(SortByScientificName(SubSeq(s, 1, Len(s) - 1)), Last(s))

\* handleInputChange (lines 398-409) with fetchSuggestions up to its await (286-292)
V2_handleInputChange(text) ==
  /\ variant = 2
  /\ text # keyword
  /\ nInputs < MaxInputs
  /\ nInputs' = nInputs + 1
  /\ lastInput' = text
  /\ keyword' = text
  /\ IF Trim(text) = ""
     THEN /\ suggestions' = <<>>
          /\ isTypingKeyword' = FALSE
          /\ UNCHANGED <<loadingSuggestions, sugReqs>>
     ELSE /\ isTypingKeyword' = TRUE
          /\ loadingSuggestions' = TRUE
          /\ sugReqs' = sugReqs \cup {[seq |-> nInputs + 1, input |-> text]}
          /\ UNCHANGED suggestions
  /\ UNCHANGED <<projectMetadata, loadingProjects, errorMsg, markers, selectedSpecies,
                 isSearching, runs, suggestionsSeq>>
  /\ UNCHANGED V2_others

\* fetchSuggestions from the response to its end (lines 290-300)
V2_suggestionsResponse(q, resp) ==
  /\ variant = 2
  /\ q \in sugReqs
  /\ sugReqs' = sugReqs \ {q}
  /\ IF resp.ok
     THEN /\ suggestions' = SortByScientificName(OrEmpty(resp))
          /\ suggestionsSeq' = q.seq
     ELSE UNCHANGED <<suggestions, suggestionsSeq>>
  /\ loadingSuggestions' = FALSE
  /\ UNCHANGED <<keyword, projectMetadata, loadingProjects, errorMsg, markers,
                 selectedSpecies, isSearching, isTypingKeyword, runs, nInputs, lastInput>>
  /\ UNCHANGED V2_others

\* handleSuggestionSelect (lines 422-426), from a row of the list (551-565)
V2_handleSuggestionSelect(suggestion) ==
  /\ variant = 2
  /\ ~isSearching /\ isTypingKeyword
  /\ suggestion \in Range(suggestions)
  /\ keyword' = suggestion.ScientificName
  /\ suggestions' = <<>>
  /\ selectedSpecies' = suggestion
  /\ UNCHANGED <<loadingSuggestions, projectMetadata, loadingProjects, errorMsg, markers,
                 isSearching, isTypingKeyword, sugReqs, runs, nInputs, suggestionsSeq,
                 lastInput>>
  /\ UNCHANGED V2_others

\* The Search button (574-578), handleSearch (411-420) and fetchSurveys up to
\* its await (303-316)
V2_handleSearch ==
  /\ variant = 2
  /\ ~loadingProjects
  /\ selectedSpecies # NoSpecies
  /\ FreeSlots # {}
  /\ suggestions' = <<>>
  /\ isTypingKeyword' = FALSE
  /\ IF selectedSpecies.TaxonID = 0
     THEN UNCHANGED <<isSearching, loadingProjects, errorMsg, markers, runs>>
     ELSE /\ isSearching' = TRUE
          /\ loadingProjects' = TRUE
          /\ errorMsg' = null
          /\ markers' = <<>>
          /\ runs' = [runs EXCEPT ![NewSlot] =
                        [IdleRun EXCEPT !.pc = "api1", !.taxonId = selectedSpecies.TaxonID,
                           !.calls = <<Call("getsurveysbyspecies", "", selectedSpecies.TaxonID, <<>>)>>]]
  /\ UNCHANGED <<keyword, loadingSuggestions, projectMetadata, selectedSpecies, sugReqs,
                 nInputs, suggestionsSeq, lastInput>>
  /\ UNCHANGED V2_others

\* The Map of lines 326-337, as its entries in insertion order
MapGet(m, key) ==
  IF \E i \in 1..Len(m) : m[i].key = key
  THEN m[CHOOSE i \in 1..Len(m) : m[i].key = key].value
  ELSE 0

MapSet(m, key, value) ==
  IF \E i \in 1..Len(m) : m[i].key = key
  THEN [i \in 1..Len(m) |-> IF m[i].key = key THEN [key |-> key, value |-> value] ELSE m[i]]
  ELSE Append(m, [key |-> key, value |-> value])

MapKeys(m) == [i \in 1..Len(m) |-> m[i].key]

\* lines 335-337 without the `+ 1` on the count found
CountStep_mutant(projectIDs, survey) ==
  LET projectID == survey.properties.ProjectID
  IN  IF projectID # NoProjectID
      THEN MapSet(projectIDs, projectID, 1)
      ELSE projectIDs

\* lines 331-337: one step of the forEach on the counts
CountStep(projectIDs, survey) ==
  LET projectID == survey.properties.ProjectID
  IN  IF projectID # NoProjectID
      THEN MapSet(projectIDs, projectID, MapGet(projectIDs, projectID) + 1)
      ELSE projectIDs

RECURSIVE CountProjects(_)
CountProjects(surveys) ==
  IF surveys = <<>> THEN <<>>
  ELSE CountStep(CountProjects(SubSeq(surveys, 1, Len(surveys) - 1)), Last(surveys))

\* line 332 with the latitude alone as the key
CoordKey_mutant(survey) == ToString(survey.geometry.coordinates[2])

\* line 332
CoordKey(survey) ==
  ToString(survey.geometry.coordinates[2]) \o "," \o ToString(survey.geometry.coordinates[1])

\* lines 339-349: one step of the forEach on markerGroups, an object whose
\* keys (never integer-like: each holds a comma) are kept in insertion order
GroupStep(markerGroups, survey) ==
  LET coordKey == CoordKey(survey)
      withKey == IF \E i \in 1..Len(markerGroups) : markerGroups[i].key = coordKey
                 THEN markerGroups
                 ELSE Append(markerGroups,
                        [key |-> coordKey,
                         coordinate |-> [latitude |-> survey.geometry.coordinates[2],
                                         longitude |-> survey.geometry.coordinates[1]],
                         surveys |-> <<>>])
  IN  [i \in 1..Len(withKey) |->
         IF withKey[i].key = coordKey
         THEN [withKey[i] EXCEPT !.surveys = Append(@, survey.properties)]
         ELSE withKey[i]]

RECURSIVE GroupSurveys(_)
GroupSurveys(surveys) ==
  IF surveys = <<>> THEN <<>>
  ELSE GroupStep(GroupSurveys(SubSeq(surveys, 1, Len(surveys) - 1)), Last(surveys))

\* lines 352-362: Object.values(markerGroups).map(...)
SurveyMarkers(markerGroups) ==
  [i \in 1..Len(markerGroups) |->
     [coordinate |-> markerGroups[i].coordinate,
      surveys |-> markerGroups[i].surveys,
      surveyDetails |->
        [j \in 1..Len(markerGroups[i].surveys) |->
           [projectName |-> markerGroups[i].surveys[j].ProjectName,
            localityDetails |-> markerGroups[i].surveys[j].LocalityDetails,
            siteCode |-> markerGroups[i].surveys[j].SiteCode]]]]

\* fetchSurveys from the response to its end (316-371), with the call of
\* fetchProjectsMetadata up to its await (365, 374-377) and the finally of
\* handleSearch (416)
V2_surveysResponse(r, resp) ==
  /\ variant = 2
  /\ runs[r].pc = "api1"
  /\ LET surveys == OrEmpty(resp)
         projectIDs == CountProjects(surveys)
     IN  IF ~resp.ok
         THEN /\ errorMsg' = SurveyErrorMsg
              /\ runs' = [runs EXCEPT ![r].pc = "error"]
              /\ UNCHANGED <<projectMetadata, markers>>
         ELSE IF Len(surveys) = 0
         THEN /\ errorMsg' = NoSurveysMsg
              /\ projectMetadata' = <<>>
              /\ markers' = <<>>
              /\ runs' = [runs EXCEPT ![r].pc = "noArea"]
         ELSE /\ markers' = SurveyMarkers(GroupSurveys(surveys))
              /\ runs' = [runs EXCEPT ![r].pc = "api3",
                                      ![r].surveys = surveys,
                                      ![r].surveyCounts = projectIDs,
                                      ![r].projectIDs = MapKeys(projectIDs),
                                      ![r].calls = Append(@,
                                         Call("getprojectsmetadatabyid", "", 0, MapKeys(projectIDs)))]
              /\ UNCHANGED <<errorMsg, projectMetadata>>
  /\ loadingProjects' = FALSE
  /\ isSearching' = FALSE
  /\ UNCHANGED <<keyword, suggestions, loadingSuggestions, selectedSpecies, isTypingKeyword,
                 sugReqs, nInputs, suggestionsSeq, lastInput>>
  /\ UNCHANGED V2_others

\* lines 380-390
CombinedMetadata(resp, surveyCounts) ==
  [i \in 1..Len(resp.body) |->
     [Project |-> resp.body[i].Project,
      LastLoadDate |-> resp.body[i].LastLoadDate,
      surveyCount |-> MapGet(surveyCounts, resp.body[i].Project.ProjectID)]]

\* fetchProjectsMetadata from the response to its end (377-395); an absent
\* ProjectMetadata makes line 388 throw, which line 393 catches
V2_metadataResponse(r, resp) ==
  /\ variant = 2
  /\ runs[r].pc = "api3"
  /\ IF ~resp.ok \/ resp.kind = "absent"
     THEN /\ runs' = [runs EXCEPT ![r].pc = IF resp.ok THEN "metaTypeError" ELSE "metaError",
                                  ![r].metadata = IF resp.ok THEN resp ELSE @]
          /\ UNCHANGED projectMetadata
     ELSE /\ projectMetadata' = CombinedMetadata(resp, runs[r].surveyCounts)
          /\ runs' = [runs EXCEPT ![r].pc = "results", ![r].metadata = resp]
  /\ UNCHANGED <<keyword, suggestions, loadingSuggestions, loadingProjects, errorMsg,
                 markers, selectedSpecies, isSearching, isTypingKeyword, sugReqs, nInputs,
                 suggestionsSeq, lastInput>>
  /\ UNCHANGED V2_others

(***************************************************************************)
(* Variant 3: keyword search with the circle filter (lines 697-911).       *)
(***************************************************************************)
V3_others == <<variant, suggestions, loadingSuggestions, loadingProjects, markers,
               selectedSpecies, isSearching, isTypingKeyword, timers, timeoutId,
               sugReqs, nInputs, suggestionsSeq, lastInput, burstCalls>>

\* onChangeText={setKeyword}, line 849
V3_setKeyword(text) ==
  /\ variant = 3
  /\ text # keyword
  /\ keyword' = text
  /\ UNCHANGED <<projectMetadata, loading, errorMsg, keywordProjectCount,
                 areaProjectCount, runs>>
  /\ UNCHANGED V3_others

\* The Search button (line 859) and fetchProjects up to its first await (724-730)
V3_fetchProjects ==
  /\ variant = 3
  /\ ~loading
  /\ keyword # ""
  /\ loading' = TRUE
  /\ errorMsg' = null
  /\ runs' = [runs EXCEPT ![NewSlot] =
                [IdleRun EXCEPT !.pc = "api1", !.keyword = keyword,
                                !.calls = <<Call("projectsearch", keyword, 0, <<>>)>>]]
  /\ UNCHANGED <<keyword, projectMetadata, keywordProjectCount, areaProjectCount>>
  /\ UNCHANGED V3_others

\* line 734 with `<` for `===`: the empty candidate list goes on to stage 2
V3_noResults_mutant(projectIDs) == Len(projectIDs) < 0

\* line 734
V3_noResults(projectIDs) == Len(projectIDs) = 0

\* fetchProjects from the response of API 1 to the next await (730-743, 779-784)
V3_api1Response(r, resp) ==
  /\ variant = 3
  /\ runs[r].pc = "api1"
  /\ LET projectIDs == Ids(OrEmpty(resp))
     IN  IF ~resp.ok
         THEN /\ errorMsg' = GenericErrorMsg
              /\ loading' = FALSE
              /\ runs' = [runs EXCEPT ![r].pc = "error"]
              /\ UNCHANGED keywordProjectCount
         ELSE /\ keywordProjectCount' = Len(projectIDs)
              /\ IF V3_noResults(projectIDs)
                 THEN /\ errorMsg' = NoResultsMsg(runs[r].keyword)
                      /\ loading' = FALSE
                      /\ runs' = [runs EXCEPT ![r].pc = "noKeyword"]
                 ELSE /\ runs' = [runs EXCEPT ![r].pc = "api2",
                                              ![r].projectIDs = projectIDs,
                                              ![r].calls = Append(@, Call("getprojects", "", 0, <<>>))]
                      /\ UNCHANGED <<errorMsg, loading>>
  /\ UNCHANGED <<keyword, projectMetadata, areaProjectCount>>
  /\ UNCHANGED V3_others

\* line 744: the circle response filtered by membership in projectIDs
V3_filteredProjects(projects, projectIDs) ==
  LET Keep(project) == Includes(projectIDs, project.ProjectID)
  IN  SelectSeq(projects, Keep)

\* fetchProjects from the response of API 2 to the next await (741-758, 779-784)
V3_api2Response(r, resp) ==
  /\ variant = 3
  /\ runs[r].pc = "api2"
  /\ LET filteredProjects == V3_filteredProjects(OrEmpty(resp), runs[r].projectIDs)
         filteredProjectIDs == Ids(filteredProjects)
     IN  IF ~resp.ok
         THEN /\ errorMsg' = GenericErrorMsg
              /\ loading' = FALSE
              /\ runs' = [runs EXCEPT ![r].pc = "error"]
              /\ UNCHANGED areaProjectCount
         ELSE /\ areaProjectCount' = Len(filteredProjects)
              /\ IF Len(filteredProjects) = 0
                 THEN /\ errorMsg' = NoAreaMsg(runs[r].keyword)
                      /\ loading' = FALSE
                      /\ runs' = [runs EXCEPT ![r].pc = "noArea",
                                              ![r].api2Projects = OrEmpty(resp)]
                 ELSE /\ runs' = [runs EXCEPT ![r].pc = "api3",
                                              ![r].api2Projects = OrEmpty(resp),
                                              ![r].calls = Append(@,
                                                 Call("getprojectsmetadatabyid", "", 0, filteredProjectIDs))]
                      /\ UNCHANGED <<errorMsg, loading>>
  /\ UNCHANGED <<keyword, projectMetadata, keywordProjectCount>>
  /\ UNCHANGED V3_others

\* fetchProjects from the response of API 3 to its end (756-784)
V3_api3Response(r, resp) ==
  /\ variant = 3
  /\ runs[r].pc = "api3"
  /\ loading' = FALSE
  /\ IF ~resp.ok
     THEN /\ errorMsg' = GenericErrorMsg
          /\ runs' = [runs EXCEPT ![r].pc = "error"]
          /\ UNCHANGED projectMetadata
     ELSE IF resp.kind = "absent"
     THEN /\ errorMsg' = NoMetadataMsg
          /\ runs' = [runs EXCEPT ![r].pc = "noMetadata", ![r].metadata = resp]
          /\ UNCHANGED projectMetadata
     ELSE IF resp.kind = "object"
     THEN /\ projectMetadata' = resp.body
          /\ runs' = [runs EXCEPT ![r].pc = "results", ![r].metadata = resp]
          /\ UNCHANGED errorMsg
     ELSE /\ projectMetadata' = SortByLastLoadDate(resp.body)
          /\ runs' = [runs EXCEPT ![r].pc = "results", ![r].metadata = resp]
          /\ UNCHANGED errorMsg
  /\ UNCHANGED <<keyword, keywordProjectCount, areaProjectCount>>
  /\ UNCHANGED V3_others

(***************************************************************************)
(* The state after construction (the useState initial values).             *)
(***************************************************************************)
InitOf(v) ==
  /\ variant = v
  /\ keyword = ""
  /\ suggestions = <<>>
  /\ loadingSuggestions = FALSE
  /\ projectMetadata = <<>>
  /\ loadingProjects = FALSE
  /\ loading = FALSE
  /\ errorMsg = null
  /\ markers = <<>>
  /\ selectedSpecies = NoSpecies
  /\ isSearching = FALSE
  /\ isTypingKeyword = FALSE
  /\ keywordProjectCount = 0
  /\ areaProjectCount = 0
  /\ timers = {}
  /\ timeoutId = 0
  /\ sugReqs = {}
  /\ runs = [r \in 1..MaxRuns |-> IdleRun]
  /\ nInputs = 0
  /\ suggestionsSeq = 0
  /\ lastInput = ""
  /\ burstCalls = <<>>

(***************************************************************************)
(* The session once the user has typed "k" and the suggestions for it have *)
(* arrived (variant 1), and once the user has then picked the koala        *)
(* (variant 2): the states from which a search is started.                 *)
(***************************************************************************)
Typed(v) ==
  /\ variant = v
  /\ keyword = IF v = 1 THEN "k" ELSE Koala.ScientificName
  /\ suggestions = IF v = 1 THEN <<Koala, Kangaroo>> ELSE <<>>
  /\ loadingSuggestions = FALSE
  /\ projectMetadata = <<>>
  /\ loadingProjects = FALSE
  /\ loading = FALSE
  /\ errorMsg = null
  /\ markers = <<>>
  /\ selectedSpecies = IF v = 1 THEN NoSpecies ELSE Koala
  /\ isSearching = FALSE
  /\ isTypingKeyword = (v = 2)
  /\ keywordProjectCount = 0
  /\ areaProjectCount = 0
  /\ timers = {}
  /\ timeoutId = 0
  /\ sugReqs = {}
  /\ runs = [r \in 1..MaxRuns |-> IdleRun]
  /\ nInputs = 1
  /\ suggestionsSeq = 1
  /\ lastInput = "k"
  /\ burstCalls = IF v = 1 THEN <<1>> ELSE <<>>

(***************************************************************************)
(* SpecAutocomplete: typing, the debounce timers and the species-search    *)
(* requests of variants 1 and 2.                                           *)
(***************************************************************************)
InitAutocomplete == InitOf(1) \/ InitOf(2)

NextAutocomplete ==
  \/ \E text \in Texts : V1_handleInputChange(text)
  \/ V1_Tick
  \/ \E t \in timers : V1_fetchSuggestions(t)
  \/ \E q \in sugReqs, resp \in SpeciesResponses : V1_suggestionsResponse(q, resp)
  \/ \E text \in Texts : V2_handleInputChange(text)
  \/ \E q \in sugReqs, resp \in SpeciesResponses : V2_suggestionsResponse(q, resp)
  \/ \E suggestion \in {Koala, Kangaroo} : V2_handleSuggestionSelect(suggestion)

SpecAutocomplete == InitAutocomplete /\ [][NextAutocomplete]_vars

(***************************************************************************)
(* SpecSearch: the search pipelines of the three variants.                 *)
(***************************************************************************)
InitSearch == Typed(1) \/ Typed(2) \/ InitOf(3)

NextSearch ==
  \/ \E suggestion \in {Koala, Kangaroo} : V1_handleSuggestionSelect(suggestion)
  \/ V1_pressSearch
  \/ \E r \in 1..MaxRuns, resp \in ProjectResponses : V1_api1Response(r, resp)
  \/ \E r \in 1..MaxRuns, resp \in SurveyResponses : V1_api2Response(r, resp)
  \/ \E r \in 1..MaxRuns, resp \in MetadataResponses : V1_api3Response(r, resp)
  \/ V2_handleSearch
  \/ \E r \in 1..MaxRuns, resp \in SurveyResponses : V2_surveysResponse(r, resp)
  \/ \E r \in 1..MaxRuns, resp \in MetadataResponses : V2_metadataResponse(r, resp)
  \/ \E text \in Texts : V3_setKeyword(text)
  \/ V3_fetchProjects
  \/ \E r \in 1..MaxRuns, resp \in ProjectResponses : V3_api1Response(r, resp)
  \/ \E r \in 1..MaxRuns, resp \in ProjectResponses : V3_api2Response(r, resp)
  \/ \E r \in 1..MaxRuns, resp \in MetadataResponses : V3_api3Response(r, resp)

SpecSearch == InitSearch /\ [][NextSearch]_vars

(***************************************************************************)
(* SpecShape: one species search (variant 2) over every survey response of *)
(* up to MaxSurveys points and every metadata response of up to MaxMeta    *)
(* records.                                                                *)
(***************************************************************************)
InitShape == Typed(2)

NextShape ==
  \/ (\A r \in 1..MaxRuns : runs[r].pc = "idle") /\ V2_handleSearch
  \/ /\ runs[1].pc = "api1"
     /\ \E resp \in {Fail, Absent} \cup {Arr(s) : s \in SurveyListsUpTo(MaxSurveys)} :
          V2_surveysResponse(1, resp)
  \/ /\ runs[1].pc = "api3"
     /\ \E resp \in MetadataResponsesUpTo(MaxMeta) : V2_metadataResponse(1, resp)

SpecShape == InitShape /\ [][NextShape]_vars

(***************************************************************************)
(* SpecSelect: typing, selecting a suggestion and starting a search in     *)
(* variants 1 and 2; the first call of a search fails or comes back empty. *)
(***************************************************************************)
InitSelect == InitOf(1) \/ InitOf(2)

NextSelect ==
  \/ \E text \in Texts : V1_handleInputChange(text)
  \/ V1_Tick
  \/ \E t \in timers : V1_fetchSuggestions(t)
  \/ \E q \in sugReqs, resp \in SpeciesResponses : V1_suggestionsResponse(q, resp)
  \/ \E suggestion \in {Koala, Kangaroo} : V1_handleSuggestionSelect(suggestion)
  \/ \E r \in 1..MaxRuns, resp \in {Fail, Absent} : V1_api1Response(r, resp)
  \/ \E text \in Texts : V2_handleInputChange(text)
  \/ \E q \in sugReqs, resp \in SpeciesResponses : V2_suggestionsResponse(q, resp)
  \/ \E suggestion \in {Koala, Kangaroo} : V2_handleSuggestionSelect(suggestion)
  \/ V2_handleSearch
  \/ \E r \in 1..MaxRuns, resp \in {Fail, Absent} : V2_surveysResponse(r, resp)

SpecSelect == InitSelect /\ [][NextSelect]_vars

(***************************************************************************)
(* SpecTerminate: the keyword searches of variants 1 and 3, where every     *)
(* remote call of a run is eventually answered or fails.                    *)
(***************************************************************************)
InitTerminate == Typed(1) \/ InitOf(3)

V1_responds(r) ==
  \/ \E resp \in ProjectResponses : V1_api1Response(r, resp)
  \/ \E resp \in SurveyResponses : V1_api2Response(r, resp)
  \/ \E resp \in MetadataResponses : V1_api3Response(r, resp)

V3_responds(r) ==
  \/ \E resp \in ProjectResponses : V3_api1Response(r, resp)
  \/ \E resp \in ProjectResponses : V3_api2Response(r, resp)
  \/ \E resp \in MetadataResponses : V3_api3Response(r, resp)

NextTerminate ==
  \/ \E suggestion \in {Koala, Kangaroo} : V1_handleSuggestionSelect(suggestion)
  \/ V1_pressSearch
  \/ \E r \in 1..MaxRuns : V1_responds(r)
  \/ \E text \in Texts : V3_setKeyword(text)
  \/ V3_fetchProjects
  \/ \E r \in 1..MaxRuns : V3_responds(r)

SpecTerminate ==
  /\ InitTerminate
  /\ [][NextTerminate]_vars
  /\ \A r \in 1..MaxRuns : WF_vars(V1_responds(r)) /\ WF_vars(V3_responds(r))

(***************************************************************************)
(* SpecSort: one keyword search of variant 3 over every metadata response  *)
(* of up to MaxSort records.                                               *)
(***************************************************************************)
InitSort == InitOf(3)

NextSort ==
  \/ \E text \in Texts : V3_setKeyword(text)
  \/ (\A r \in 1..MaxRuns : runs[r].pc = "idle") /\ V3_fetchProjects
  \/ \E resp \in ProjectResponses : V3_api1Response(1, resp)
  \/ \E resp \in ProjectResponses : V3_api2Response(1, resp)
  \/ /\ runs[1].pc = "api3"
     /\ \E resp \in MetadataResponsesUpTo(MaxSort) : V3_api3Response(1, resp)

SpecSort == InitSort /\ [][NextSort]_vars

(***************************************************************************)
(* Observations on a run, read from where it stands and what it has sent.  *)
(***************************************************************************)
MetadataCalls(r) ==
  {i \in 1..Len(runs[r].calls) : runs[r].calls[i].op = "getprojectsmetadatabyid"}

\* The run has had an answer (not a failure) from its stage-1 call
CandidatesAnswered(r) ==
  /\ runs[r].pc \notin {"idle", "api1"}
  /\ ~(runs[r].pc = "error" /\ Len(runs[r].calls) = 1)

\* The run has had an answer (not a failure) from its geographic call: the
\* second call of variants 1 and 3, the only call of fetchSurveys in variant 2
AreaAnswered(r) ==
  IF variant = 2
  THEN runs[r].pc \in {"noArea", "api3", "results", "metaError", "metaTypeError"}
  ELSE \/ runs[r].pc \in {"noArea", "api3", "results", "noMetadata"}
       \/ runs[r].pc = "error" /\ MetadataCalls(r) # {}

\* The project ids the geographic answer carries
AreaIds(r) ==
  IF variant = 3
  THEN {runs[r].api2Projects[i].ProjectID : i \in 1..Len(runs[r].api2Projects)}
  ELSE {runs[r].surveys[i].properties.ProjectID : i \in 1..Len(runs[r].surveys)}

\* What the geographic filter leaves: the candidates in the area on the
\* keyword path, the survey points on the species path
AreaLeavesNothing(r) ==
  IF variant = 2 THEN runs[r].surveys = <<>>
  ELSE Range(runs[r].projectIDs) \cap AreaIds(r) = {}

Terminal == {"noKeyword", "noArea", "noMetadata", "results", "error", "metaError",
             "metaTypeError"}

(***************************************************************************)
(* C1: on the keyword path (variants 1 and 3) the ids of every metadata    *)
(* request are exactly the stage-1 candidate ids that also appear in the   *)
(* answer of the geographic (circle) call.                                 *)
(***************************************************************************)
C1_MetadataRequestIsCandidatesInArea ==
  variant \in {1, 3} =>
    \A r \in 1..MaxRuns : \A i \in MetadataCalls(r) :
      Range(runs[r].calls[i].projids) = Range(runs[r].projectIDs) \cap AreaIds(r)

(***************************************************************************)
(* C2: on the keyword path, a run whose stage-1 call answers with no       *)
(* project id stands in the "no results for keyword" state having sent the *)
(* projectsearch call only, and on reaching that state errorMsg names the  *)
(* run's keyword.                                                          *)
(***************************************************************************)
C2_NoCandidatesStops ==
  /\ [](variant \in {1, 3} =>
         \A r \in 1..MaxRuns :
           (CandidatesAnswered(r) /\ runs[r].projectIDs = <<>>) =>
             /\ runs[r].pc = "noKeyword"
             /\ Len(runs[r].calls) = 1
             /\ runs[r].calls[1].op = "projectsearch")
  /\ [][\A r \in 1..MaxRuns :
          (runs[r].pc = "api1" /\ runs'[r].pc = "noKeyword") =>
            errorMsg' = NoResultsMsg(runs[r].keyword)]_vars

C2_Witness ==
  \E r \in 1..MaxRuns :
    /\ variant = 1
    /\ runs[r].pc = "noKeyword"
    /\ errorMsg = NoResultsMsg("koala")
    /\ \E q \in 1..MaxRuns : runs[q].pc = "api3"

(***************************************************************************)
(* C3: a run whose geographic filter leaves nothing stands in the "no      *)
(* results in area" state and has sent no metadata request; while no other *)
(* run has started, errorMsg is the message that suggests a larger radius. *)
(***************************************************************************)
C3_EmptyAreaStops ==
  \A r \in 1..MaxRuns :
    (AreaAnswered(r) /\ AreaLeavesNothing(r)) =>
      /\ runs[r].pc = "noArea"
      /\ MetadataCalls(r) = {}
      /\ (\A q \in 1..MaxRuns \ {r} : runs[q].pc = "idle") =>
           errorMsg \in {NoSurveysMsg, NoAreaMsg(runs[r].keyword)}

(***************************************************************************)
(* C4: input changes that each arrive while a debounce timer is pending    *)
(* (within DebounceDelay of the one before) form a burst; once the timers  *)
(* of a burst that ended on a non-empty input have all run, exactly one    *)
(* species-search call has been made, for the last input of the burst.     *)
(***************************************************************************)
C4_OneCallPerBurst ==
  (variant = 1 /\ nInputs > 0 /\ timers = {} /\ lastInput # "") =>
    burstCalls = <<nInputs>>

(***************************************************************************)
(* C5: the response of a superseded species-search request never replaces  *)
(* the suggestions stored from the response of a newer request.            *)
(***************************************************************************)
C5_NoStaleOverwrite == [][suggestionsSeq' < suggestionsSeq => suggestions' = suggestions]_vars

(***************************************************************************)
(* C6: when a species-search call fails, the suggestion list becomes empty *)
(* and errorMsg is left unchanged.                                         *)
(***************************************************************************)
C6_FailedAutocompleteClears ==
  [][((\E q \in sugReqs : q \notin sugReqs') /\ suggestionsSeq' = suggestionsSeq) =>
       (suggestions' = <<>> /\ errorMsg' = errorMsg)]_vars

(***************************************************************************)
(* C7: a run whose call fails at any stage stops there, having sent no     *)
(* further call, and leaves errorMsg set to the generic message that       *)
(* suggests trying again.                                                  *)
(***************************************************************************)
C7_TransportFailureReported ==
  [][\A r \in 1..MaxRuns :
       (InFlight(r) /\ runs'[r].pc \in {"error", "metaError"}) =>
         /\ runs'[r].calls = runs[r].calls
         /\ errorMsg' \in {GenericErrorMsg, SurveyErrorMsg}]_vars

(***************************************************************************)
(* C8: when a run reaches a terminal state, the displayed results hold     *)
(* only what that run fetched: a run that ends without metadata leaves     *)
(* projectMetadata empty, and one that ends before its geographic answer   *)
(* leaves no markers.                                                      *)
(***************************************************************************)
C8_ResultsReplacedWholesale ==
  [][\A r \in 1..MaxRuns :
       (InFlight(r) /\ runs'[r].pc \in Terminal \ {"results"}) =>
         /\ projectMetadata' = <<>>
         /\ runs'[r].pc \in {"noKeyword", "noArea"} => markers' = <<>>]_vars

(***************************************************************************)
(* C9: in the results of a species search, the surveyCount of every        *)
(* metadata record is the number of survey points of the run's survey      *)
(* response whose ProjectID is the record's (0 when no point carries it).  *)
(***************************************************************************)
PointsOf(surveys, projectID) ==
  {j \in 1..Len(surveys) : surveys[j].properties.ProjectID = projectID}

C9_SurveyCountIsOccurrences ==
  (variant = 2 /\ runs[1].pc = "results") =>
    \A i \in 1..Len(projectMetadata) :
      projectMetadata[i].surveyCount =
        Cardinality(PointsOf(runs[1].surveys, projectMetadata[i].Project.ProjectID))

C9_Witness ==
  /\ variant = 2
  /\ runs[1].pc = "results"
  /\ \E i, j \in 1..Len(projectMetadata) :
       /\ projectMetadata[i].surveyCount = 0
       /\ projectMetadata[j].surveyCount = MaxSurveys - 1
  /\ \E k \in 1..Len(runs[1].surveys) : runs[1].surveys[k].properties.ProjectID = NoProjectID

(***************************************************************************)
(* C10: the markers of a species search are one group per distinct         *)
(* coordinate of the survey response, in the order in which the            *)
(* coordinates first occur, each holding exactly the points of its         *)
(* coordinate in the order of the response.                                *)
(***************************************************************************)
CoordOf(survey) == <<survey.geometry.coordinates[2], survey.geometry.coordinates[1]>>

FirstAt(surveys, c) ==
  CHOOSE j \in 1..Len(surveys) :
    /\ CoordOf(surveys[j]) = c
    /\ \A k \in 1..(j - 1) : CoordOf(surveys[k]) # c

PointsAt(surveys, c) ==
  LET At(survey) == CoordOf(survey) = c
  IN  SelectSeq(surveys, At)

RECURSIVE SumSizes(_)
SumSizes(groups) ==
  IF groups = <<>> THEN 0
  ELSE Len(groups[1].surveyDetails) + SumSizes(Tail(groups))

Grouped(surveys, groups) ==
  LET coordOfGroup(g) == <<groups[g].coordinate.latitude, groups[g].coordinate.longitude>>
  IN  /\ Len(groups) = Cardinality({CoordOf(surveys[j]) : j \in 1..Len(surveys)})
      /\ \A g \in 1..Len(groups) :
           /\ \E j \in 1..Len(surveys) : CoordOf(surveys[j]) = coordOfGroup(g)
           /\ LET points == PointsAt(surveys, coordOfGroup(g))
              IN  /\ Len(groups[g].surveyDetails) = Len(points)
                  /\ \A j \in 1..Len(points) :
                       /\ groups[g].surveyDetails[j].siteCode = points[j].properties.SiteCode
                       /\ groups[g].surveyDetails[j].projectName = points[j].properties.ProjectName
      /\ \A g, h \in 1..Len(groups) :
           g < h => FirstAt(surveys, coordOfGroup(g)) < FirstAt(surveys, coordOfGroup(h))
      /\ SumSizes(groups) = Len(surveys)

C10_GroupedByCoordinate ==
  (variant = 2 /\ runs[1].pc \in {"api3", "results", "metaError", "metaTypeError"}) =>
    Grouped(runs[1].surveys, markers)

C10_Witness ==
  /\ variant = 2
  /\ runs[1].pc = "api3"
  /\ Len(runs[1].surveys) = MaxSurveys
  /\ Len(markers) = 2
  /\ Len(markers[1].surveyDetails) = MaxSurveys - 1
  /\ CoordOf(runs[1].surveys[2]) # CoordOf(runs[1].surveys[1])

(***************************************************************************)
(* C11: on the keyword path (variants 1 and 3), when a run has handled the  *)
(* answer to its metadata request, the stored projectMetadata holds exactly *)
(* one entry per record of the answer: one for a single object, one per     *)
(* element for a collection, none when ProjectMetadata is absent.           *)
(***************************************************************************)
Count(s, x) == Cardinality({i \in 1..Len(s) : s[i] = x})

SameRecords(stored, records) ==
  /\ Len(stored) = Len(records)
  /\ \A i \in 1..Len(records) : Count(stored, records[i]) = Count(records, records[i])

MetadataHandled(r) ==
  /\ runs[r].pc = "api3"
  /\ runs'[r].pc \in {"results", "noMetadata", "metaTypeError"}

C11_MetadataNormalized ==
  [][\A r \in 1..MaxRuns :
       (variant \in {1, 3} /\ MetadataHandled(r)) =>
         SameRecords(projectMetadata', OrEmpty(runs'[r].metadata))]_vars

(***************************************************************************)
(* C12: in variant 3, the variant that sorts (lines 774-778), when a run    *)
(* has handled a collection answer to its metadata request, the stored      *)
(* projectMetadata is the answer ordered by LastLoadDate, latest first, the *)
(* records of one date in the order of the answer.  (Variant 1 stores the   *)
(* collection in the order of the answer, line 94.)                         *)
(***************************************************************************)
OfDate(records, d) ==
  LET Is(x) == x.LastLoadDate = d
  IN  SelectSeq(records, Is)

SortedStable(stored, records) ==
  /\ Len(stored) = Len(records)
  /\ \A i, j \in 1..Len(stored) : i < j => stored[i].LastLoadDate >= stored[j].LastLoadDate
  /\ \A d \in Dates : OfDate(stored, d) = OfDate(records, d)

RunStarted(r) == runs[r].pc # "api1" /\ runs'[r].pc = "api1"

V2_Selected ==
  variant = 2 /\ nInputs' = nInputs /\ sugReqs' = sugReqs /\ runs' = runs

V1_Selected(r) ==
  variant = 1 /\ RunStarted(r) /\ suggestions # <<>> /\ suggestions' = <<>>

C13_SelectionCommitsTarget ==
  [][/\ V2_Selected =>
          /\ suggestions' = <<>>
          /\ selectedSpecies' \in Range(suggestions)
          /\ keyword' = selectedSpecies'.ScientificName
     /\ (variant = 2 /\ selectedSpecies' # selectedSpecies) => V2_Selected
     /\ \A r \in 1..MaxRuns :
          (variant = 2 /\ RunStarted(r)) =>
            /\ selectedSpecies # NoSpecies
            /\ runs'[r].calls =
                 <<Call("getsurveysbyspecies", "", selectedSpecies.TaxonID, <<>>)>>
     /\ \A r \in 1..MaxRuns :
          V1_Selected(r) =>
            \E s \in Range(suggestions) :
              /\ keyword' = s.SpeciesName
              /\ runs'[r].calls[1].taxonid = s.TaxonID]_vars

(***************************************************************************)
(* C14: at most one search run is in flight (suspended at a remote call)    *)
(* at any time.                                                            *)
(***************************************************************************)
RunsInFlight == {r \in 1..MaxRuns : InFlight(r)}

C14_OneRunAtATime == Cardinality(RunsInFlight) <= 1

(***************************************************************************)
(* C15: when overlapping runs have all finished, markers, projectMetadata   *)
(* and errorMsg are what the run that finished last leaves when it runs     *)
(* alone.  A run in a slot above the first started while the first slot's   *)
(* run was in flight, so it has overlapped with a run of the first slot.    *)
(***************************************************************************)
Shared(m, p, e) == [markers |-> m, projectMetadata |-> p, errorMsg |-> e]

\* What a run of fetchProjects (variant 1) that has ended leaves on its own
V1_Outcome(run) ==
  CASE run.pc = "results" ->
         Shared(V1_newMarkers(run.surveys), V1_normalize(run.metadata), null)
    [] run.pc = "noKeyword" -> Shared(<<>>, <<>>, NoResultsMsg(run.keyword))
    [] OTHER ->
         Shared(IF Len(run.calls) = 3 THEN V1_newMarkers(run.surveys) ELSE <<>>,
                <<>>, GenericErrorMsg)

\* What a run of fetchSurveys and fetchProjectsMetadata (variant 2) that has
\* ended leaves on its own
V2_Outcome(run) ==
  CASE run.pc = "results" ->
         Shared(SurveyMarkers(GroupSurveys(run.surveys)),
                CombinedMetadata(run.metadata, run.surveyCounts), null)
    [] run.pc = "noArea" -> Shared(<<>>, <<>>, NoSurveysMsg)
    [] run.pc = "error" -> Shared(<<>>, <<>>, SurveyErrorMsg)
    [] OTHER -> Shared(SurveyMarkers(GroupSurveys(run.surveys)), <<>>, null)

C15_LastRunDeterminesState ==
  [][\A r \in 2..MaxRuns :
       (/\ variant \in {1, 2}
        /\ InFlight(r)
        /\ \A q \in 1..MaxRuns : runs'[q].pc \notin Suspended) =>
         Shared(markers', projectMetadata', errorMsg') =
           IF variant = 1 THEN V1_Outcome(runs'[r]) ELSE V2_Outcome(runs'[r])]_vars

(***************************************************************************)
(* C16: in variant 2, whenever loadingProjects is false no search run is    *)
(* suspended at a remote call.                                             *)
(***************************************************************************)
C16_NotLoadingMeansNoCall ==
  (variant = 2 /\ ~loadingProjects) => RunsInFlight = {}

(***************************************************************************)
(* C17: in variant 3, the count of projects found in the area never         *)
(* exceeds the count of projects found for the keyword.                     *)
(***************************************************************************)
C17_AreaCountAtMostKeywordCount ==
  variant = 3 => areaProjectCount <= keywordProjectCount

(***************************************************************************)
(* C18: in variant 2, every search that starts asks for the species whose   *)
(* ScientificName is the keyword text shown at that moment.                 *)
(***************************************************************************)
C18_SearchMatchesKeyword ==
  [][\A r \in 1..MaxRuns :
       (variant = 2 /\ RunStarted(r)) =>
         /\ keyword = selectedSpecies.ScientificName
         /\ runs'[r].taxonId = selectedSpecies.TaxonID]_vars

(***************************************************************************)
(* C19: when every remote call is eventually answered or fails, every run   *)
(* of fetchProjects (variants 1 and 3) that is suspended at a call          *)
(* eventually has ended with the loading flag false.                        *)
(***************************************************************************)
C19_RunTerminates ==
  \A r \in 1..MaxRuns :
    (runs[r].pc \in Suspended) ~>
      (runs[r].pc \in Terminal /\ ~loadingProjects /\ ~loading)

C19_Witness ==
  /\ variant = 1
  /\ runs[1].pc = "error"
  /\ runs[2].pc = "results"
  /\ Len(runs[1].calls) = 3
  /\ ~loadingProjects

====
